---- MODULE Spec2Model ----
(***************************************************************************)
(* A model of framework.py: the process-wide tool registry, the metadata   *)
(* synthesizer, the tool dispatcher (run_tool) and the conversation driver *)
(* (Chatter.chat) with its request / tool-round loop.                      *)
(*                                                                         *)
(* The remote model endpoint is a black box: each of its responses is an   *)
(* input of the ChatRound action.  Python is single threaded here, so the  *)
(* registry is only mutated between calls.                                 *)
(***************************************************************************)
EXTENDS Naturals, Sequences, FiniteSets, TLC

VARIABLES
    registry,   \* ToolRegistry._tools: an insertion-ordered dict, <<key, callable>> pairs
    registered, \* observation: per name, the callable the host registered last (None after a delete)
    chatter,    \* the Chatter instance (system_message, tools), or NoChatter
    history,    \* the caller's history list that chat() mutates in place
    pc,         \* "idle", or "awaiting" while chat() blocks in completions.create
    request,    \* the arguments of the latest completions.create call
    turn,       \* observation of the current chat() call: history at entry, requests issued
    invoked,    \* observation: the callables invoked by the latest operation, with their kwargs
    last        \* observation: the latest register_tool, get_tools, run_tool or chat call
                \* and its outcome

vars == <<registry, registered, chatter, history, pc, request, turn, invoked, last>>

-----------------------------------------------------------------------------
(* Bounds of the exploration.                                              *)

\* entries the history may grow to; a turn or a tool round only starts when
\* the entries it appends, and the final assistant entry of the turn, fit
MaxHistory == 6
\* tool-call requests one response may carry
MaxCalls == 2

-----------------------------------------------------------------------------
(* Python values.                                                          *)

PyNone == [kind |-> "none", text |-> ""]
PyStr(s) == [kind |-> "str", text |-> s]
PyEmptyList == [kind |-> "list", text |-> ""]
PyEmptyDict == [kind |-> "dict", text |-> ""]

\* bool(v): None, "", [] and {} are falsy
Truthy(v) == ~(v.kind \in {"none", "list", "dict"} \/ (v.kind = "str" /\ v.text = ""))

\* `v or default` where v is an Optional[str]
\* the text of v whatever v is, with no default
OrTextKeep(v, default) == v.text
OrText(v, default) == IF Truthy(v) THEN v.text ELSE default

\* `s or default` where s is a str
StrOr(s, default) == IF s # "" THEN s ELSE default

\* json.dumps(result)
JsonDumps(v) ==
    CASE v.kind = "none" -> "null"
      [] v.kind = "str"  -> "\"" \o v.text \o "\""
      [] v.kind = "list" -> "[]"
      [] v.kind = "dict" -> "{}"

\* the argument strings a tool call may carry
ArgsAdd == "{\"a\": \"2\", \"b\": \"3\"}"
ArgsMsg == "{\"msg\": \"\"}"
ArgsNone == "{}"
ArgsBad == "not json"
ArgStrings == {ArgsAdd, ArgsMsg, ArgsNone, ArgsBad}

\* json.loads(arguments): a JSON object decodes to a dict (<<key, value>> pairs),
\* text that is not JSON raises JSONDecodeError
JsonLoads(s) ==
    CASE s = ArgsAdd  -> [ok |-> TRUE, value |-> << <<"a", "2">>, <<"b", "3">> >>]
      [] s = ArgsMsg  -> [ok |-> TRUE, value |-> << <<"msg", "">> >>]
      [] s = ArgsNone -> [ok |-> TRUE, value |-> << >>]
      [] OTHER        -> [ok |-> FALSE, value |-> << >>]

-----------------------------------------------------------------------------
(* Insertion-ordered dicts: sequences of <<key, value>> pairs.             *)

DictKeys(d) == {d[i][1] : i \in 1..Len(d)}
DictIndex(d, k) == CHOOSE i \in 1..Len(d) : d[i][1] = k
DictAt(d, k) == d[DictIndex(d, k)][2]

\* d.get(k): the value, or None
DictGet(d, k) == IF k \in DictKeys(d) THEN DictAt(d, k) ELSE PyNone

\* DictSet that keeps the first value of a key that is already present
DictSetKeepFirst(d, k, v) ==
    IF k \in DictKeys(d) THEN d ELSE Append(d, <<k, v>>)

\* d[k] = v: an existing key keeps its position, a new key goes last
DictSet(d, k, v) ==
    IF k \in DictKeys(d)
    THEN [d EXCEPT ![DictIndex(d, k)] = <<k, v>>]
    ELSE Append(d, <<k, v>>)

\* del d[k], for a key that is present
DictDel(d, k) ==
    LET i == DictIndex(d, k)
    IN  SubSeq(d, 1, i - 1) \o SubSeq(d, i + 1, Len(d))

\* d.values()
DictValues(d) == [i \in 1..Len(d) |-> d[i][2]]

-----------------------------------------------------------------------------
(* The callables of the exploration: the two tools of test_framework.py    *)
(* and one tool without a docstring that returns an empty list.  All are   *)
(* plain functions, so each is truthy and has a __name__.                  *)

fn_add == [name |-> "add", doc |-> "Add two numbers as strings and return the sum as a string.",
           params |-> <<"a", "b">>]
fn_echo == [name |-> "echo", doc |-> "Echo the input message.", params |-> <<"msg">>]
fn_lookup == [name |-> "lookup", doc |-> "", params |-> <<"msg">>]
Callables == {fn_add, fn_echo, fn_lookup}
\* functools.partial(add, "2"): a callable whose signature is (b) and which,
\* not being a function, has no __name__
fn_add_partial == [doc |-> "Create a new function with partial application of the given arguments and keywords.",
                   params |-> <<"b">>]
AnyCallables == Callables \cup {fn_add_partial}
\* the registrations made while conversations are explored
ChatRegistrations == {<<"add", fn_add>>, <<"echo", fn_echo>>}

\* the keys tools are registered under, and a name that never is
RegNames == {"add", "echo"}
CallNames == RegNames \cup {"nonexistent"}

\* int(s) and str(n) on the operands in use
IntOf(s) == CASE s = "2" -> 2 [] s = "3" -> 3
StrOf(n) == CASE n = 4 -> "4" [] n = 5 -> "5" [] n = 6 -> "6"

\* the body of a callable, applied to bound keyword arguments
Body(fn, kwargs) ==
    CASE fn = fn_add    -> PyStr(StrOf(IntOf(DictAt(kwargs, "a")) + IntOf(DictAt(kwargs, "b"))))
      [] fn = fn_echo   -> PyStr(DictAt(kwargs, "msg"))
      [] fn = fn_lookup -> PyEmptyList
      [] fn = fn_add_partial -> PyStr(StrOf(2 + IntOf(DictAt(kwargs, "b"))))

\* tool_fn(**args): the keywords must be exactly the declared parameters
\* (none of the callables has defaults), else the call raises TypeError
Binds(fn, kwargs) == DictKeys(kwargs) = {fn.params[i] : i \in 1..Len(fn.params)}

-----------------------------------------------------------------------------
(* Metadata synthesizer.                                                   *)

\* the properties dict built by the loop over sig.parameters.values()
RECURSIVE Properties(_)
Properties(params) ==
    IF params = << >> THEN << >>
    ELSE LET p == params[Len(params)]
         IN  DictSet(Properties(SubSeq(params, 1, Len(params) - 1)), p,
                     [type |-> "string", description |-> "Parameter: " \o p])

\* generate_tool_metadata(tool_fn)
generate_tool_metadata(fn) ==
    IF "name" \notin DOMAIN fn
    THEN [raised |-> "AttributeError"]
    ELSE [name |-> fn.name,
          description |-> StrOr(fn.doc, "Tool function: " \o fn.name),
          parameters |-> [type |-> "object",
                          properties |-> Properties(fn.params),
                          required |-> fn.params,
                          additionalProperties |-> FALSE]]

\* get_tools() raises when the synthesis of one schema does
GetToolsRaises(reg) ==
    \E i \in 1..Len(reg) : "raised" \in DOMAIN generate_tool_metadata(DictValues(reg)[i])

\* get_tools(): one wrapped schema per value of the registry, in iteration order
get_tools(reg) ==
    [i \in 1..Len(reg) |->
        [type |-> "function", function |-> generate_tool_metadata(DictValues(reg)[i])]]

-----------------------------------------------------------------------------
(* Tool dispatcher.                                                        *)

Raised(err, calls) == [status |-> "raised", error |-> err, value |-> PyNone, invoked |-> calls]
Returned(v, calls) == [status |-> "returned", error |-> "", value |-> v, invoked |-> calls]

\* run_tool that calls the tool and drops its result
run_tool_no_return(reg, call) ==
    LET args == JsonLoads(call.arguments)
        tool_fn == DictGet(reg, call.name)
    IN  IF ~args.ok THEN Raised("JSONDecodeError", << >>)
        ELSE IF tool_fn = PyNone THEN Raised("ToolNotFoundError", << >>)
        ELSE IF ~Binds(tool_fn, args.value)
             THEN Raised("TypeError", << [fn |-> tool_fn, kwargs |-> args.value] >>)
        ELSE Returned(PyNone, << [fn |-> tool_fn, kwargs |-> args.value] >>)

\* run_tool(tool_call): the arguments are decoded before the name is looked up
run_tool(reg, call) ==
    LET args == JsonLoads(call.arguments)
        tool_fn == DictGet(reg, call.name)
    IN  IF ~args.ok THEN Raised("JSONDecodeError", << >>)
        ELSE IF tool_fn = PyNone THEN Raised("ToolNotFoundError", << >>)
        ELSE IF ~Binds(tool_fn, args.value)
             THEN Raised("TypeError", << [fn |-> tool_fn, kwargs |-> args.value] >>)
        ELSE Returned(Body(tool_fn, args.value), << [fn |-> tool_fn, kwargs |-> args.value] >>)

-----------------------------------------------------------------------------
(* Conversation driver.                                                    *)

NoChatter == [constructed |-> FALSE]
DefaultSystemMessage == "You are a helpful assistant."

\* a tool call object of a response, and tc.to_dict()
ToolCall(id, name, arguments) ==
    [id |-> id, type |-> "function", function |-> [name |-> name, arguments |-> arguments]]
ToDict(tc) ==
    [id |-> tc.id, type |-> tc.type,
     function |-> [name |-> tc.function.name, arguments |-> tc.function.arguments]]

\* ToolResponse that files the response under the tool name, not the call id
ToolResponseByName(tc, result) ==
    [role |-> "tool",
     tool_call_id |-> tc.function.name,
     name |-> tc.function.name,
     content |-> JsonDumps(result)]

\* the response dict _handle_tool_calls builds for one call and its result
ToolResponse(tc, result) ==
    [role |-> "tool",
     tool_call_id |-> tc.id,
     name |-> tc.function.name,
     content |-> JsonDumps(result)]

\* Chatter._handle_tool_calls(message): every call of the message is run, in
\* order, before anything is returned; the first error ends the loop
RECURSIVE HandleFrom(_, _, _, _, _)
RECURSIVE HandleFromContinue(_, _, _, _, _)
\* a loop that swallows the error of a call and goes on with the next one
HandleFromContinue(reg, tool_calls, i, responses, calls) ==
    IF i > Len(tool_calls) THEN [status |-> "returned", error |-> "",
                                 responses |-> responses, invoked |-> calls]
    ELSE LET tc == tool_calls[i]
             r == run_tool(reg, [name |-> tc.function.name, arguments |-> tc.function.arguments])
         IN  IF r.status = "raised"
             THEN HandleFromContinue(reg, tool_calls, i + 1, responses, calls \o r.invoked)
             ELSE HandleFromContinue(reg, tool_calls, i + 1,
                                     Append(responses, ToolResponse(tc, r.value)),
                                     calls \o r.invoked)
HandleFrom(reg, tool_calls, i, responses, calls) ==
    IF i > Len(tool_calls) THEN [status |-> "returned", error |-> "",
                                 responses |-> responses, invoked |-> calls]
    ELSE LET tc == tool_calls[i]
             r == run_tool(reg, [name |-> tc.function.name, arguments |-> tc.function.arguments])
         IN  IF r.status = "raised"
             THEN [status |-> "raised", error |-> r.error,
                   responses |-> responses, invoked |-> calls \o r.invoked]
             ELSE HandleFrom(reg, tool_calls, i + 1,
                             Append(responses, ToolResponse(tc, r.value)),
                             calls \o r.invoked)

handle_tool_calls(reg, tool_calls) == HandleFrom(reg, tool_calls, 1, << >>, << >>)

\* to_openai_message(msg), with a variant that passes an entry with an
\* unknown role through instead of raising
to_openai_message_passthrough(msg) ==
    CASE msg.role = "system" -> [role |-> "system", content |-> msg.content]
      [] msg.role = "user" -> [role |-> "user", content |-> msg.content]
      [] msg.role = "assistant" ->
            IF "tool_calls" \in DOMAIN msg /\ msg.tool_calls # << >>
            THEN [role |-> "assistant", content |-> msg.content, tool_calls |-> msg.tool_calls]
            ELSE [role |-> "assistant", content |-> msg.content]
      [] msg.role = "tool" -> [role |-> "tool", tool_call_id |-> msg.tool_call_id,
                               name |-> msg.name, content |-> msg.content]
      [] OTHER -> [role |-> msg.role, content |-> msg.content]
\* to_openai_message(msg): one branch per role, and ValueError for any other
to_openai_message(msg) ==
    CASE msg.role = "system" -> [role |-> "system", content |-> msg.content]
      [] msg.role = "user" -> [role |-> "user", content |-> msg.content]
      [] msg.role = "assistant" ->
            IF "tool_calls" \in DOMAIN msg /\ msg.tool_calls # << >>
            THEN [role |-> "assistant", content |-> msg.content, tool_calls |-> msg.tool_calls]
            ELSE [role |-> "assistant", content |-> msg.content]
      [] msg.role = "tool" -> [role |-> "tool", tool_call_id |-> msg.tool_call_id,
                               name |-> msg.name, content |-> msg.content]
      [] OTHER -> [raised |-> "ValueError"]

\* the list comprehension over the history alone, without the system message
BuildMessagesNoSystem(system_message, h) ==
    LET translated == [i \in 1..Len(h) |-> to_openai_message(h[i])]
    IN  IF \E i \in 1..Len(h) : "raised" \in DOMAIN translated[i]
        THEN [ok |-> FALSE, messages |-> << >>]
        ELSE [ok |-> TRUE, messages |-> translated]
\* messages = [system] + [to_openai_message(m) for m in history];
\* the ValueError of one translation ends the comprehension
BuildMessages(system_message, h) ==
    LET translated == [i \in 1..Len(h) |-> to_openai_message(h[i])]
    IN  IF \E i \in 1..Len(h) : "raised" \in DOMAIN translated[i]
        THEN [ok |-> FALSE, messages |-> << >>]
        ELSE [ok |-> TRUE,
              messages |-> <<[role |-> "system", content |-> system_message]>>
                           \o translated]

\* history.append(entry), with a variant that inserts at the front
ListInsertFront(h, entry) == <<entry>> \o h
ListAppend(h, entry) == Append(h, entry)

\* `if tool_calls:` on the tool_calls attribute of the response (absent, None
\* and the empty list all count as none), with a variant that tests nothing
HasToolCallsAlways(tool_calls) == TRUE
HasToolCalls(tool_calls) == tool_calls # << >>

\* `while True:` of chat(), as a condition on the number of requests issued so
\* far, with a variant that gives up after two requests
LoopConditionCapped(requests) == requests < 2
LoopCondition(requests) == TRUE

\* the entries chat() appends: the user turn, an assistant message that
\* requests tool calls, and the final assistant message
UserEntry(message) == [role |-> "user", content |-> message]
AssistantEntry(content, tool_calls) ==
    [role |-> "assistant",
     content |-> OrText(content, "Tool call issued."),
     tool_calls |-> [i \in 1..Len(tool_calls) |-> ToDict(tool_calls[i])]]
\* FinalEntry that stores the fallback text whatever the content
FinalEntryFallback(content) == [role |-> "assistant", content |-> "No response."]
FinalEntry(content) == [role |-> "assistant", content |-> content]

\* ToolEntries with the responses appended last to first
ToolEntriesReversed(responses) ==
    [i \in 1..Len(responses) |->
        [role |-> "tool",
         tool_call_id |-> responses[Len(responses) + 1 - i].tool_call_id,
         name |-> responses[Len(responses) + 1 - i].name,
         content |-> StrOr(responses[Len(responses) + 1 - i].content, "No results found.")]]

\* the tool entries chat() appends for the responses of _handle_tool_calls
ToolEntries(responses) ==
    [i \in 1..Len(responses) |->
        [role |-> "tool",
         tool_call_id |-> responses[i].tool_call_id,
         name |-> responses[i].name,
         content |-> StrOr(responses[i].content, "No results found.")]]

-----------------------------------------------------------------------------
(* Inputs of the exploration.                                              *)

\* the text of a user turn
UserMessages == {"hi"}

\* message.content of a response: None, empty or text
Contents == {PyNone, PyStr(""), PyStr("ok")}

\* the tool-call requests a response may carry
ToolCallRequests ==
    {ToolCall("call_1", "add", ArgsAdd),
     ToolCall("call_2", "echo", ArgsMsg),
     ToolCall("call_3", "nonexistent", ArgsBad)}

\* an entry the owner of the history list puts there itself: the role of the
\* legacy function-calling API, which to_openai_message() does not know
ForeignEntries == {[role |-> "function", content |-> "legacy"]}

SeqsUpTo(S, n) == UNION {[1..k -> S] : k \in 0..n}

-----------------------------------------------------------------------------
(* State after `import framework`: an empty registry, no driver.           *)

NoRequest == [sent |-> FALSE]

Init ==
    /\ registry = << >>
    /\ registered = [name \in RegNames |-> PyNone]
    /\ chatter = NoChatter
    /\ history = << >>
    /\ pc = "idle"
    /\ request = NoRequest
    /\ turn = [entry |-> << >>, requests |-> 0]
    /\ invoked = << >>
    /\ last = [op |-> "import", status |-> "returned"]

-----------------------------------------------------------------------------
(* Registry operations.                                                    *)

\* register_tool(name)(fn), i.e. TOOL_REGISTRY[name] = fn
RegisterTool(name, fn) ==
    /\ pc = "idle"
    /\ registry' = DictSet(registry, name, fn)
    /\ registered' = [registered EXCEPT ![name] = fn]
    /\ invoked' = << >>
    /\ last' = [op |-> "register_tool", status |-> "returned",
                replaced |-> name \in DictKeys(registry)]
    /\ UNCHANGED <<chatter, history, pc, request, turn>>

\* del TOOL_REGISTRY[key]: KeyError when the key is absent
DeleteTool(key) ==
    /\ pc = "idle"
    /\ registry' = IF key \in DictKeys(registry) THEN DictDel(registry, key) ELSE registry
    /\ registered' = IF key \in DictKeys(registry)
                     THEN [registered EXCEPT ![key] = PyNone] ELSE registered
    /\ UNCHANGED <<chatter, history, pc, request, turn, invoked, last>>

\* get_tools(), called by the host application
GetTools ==
    /\ pc = "idle"
    /\ last' = IF GetToolsRaises(registry)
               THEN [op |-> "get_tools", status |-> "raised", error |-> "AttributeError"]
               ELSE [op |-> "get_tools", status |-> "returned", value |-> get_tools(registry)]
    /\ invoked' = << >>
    /\ UNCHANGED <<registry, registered, chatter, history, pc, request, turn>>

\* run_tool(tool_call), called by the host application
RunTool(name, arguments) ==
    /\ pc = "idle"
    /\ LET r == run_tool(registry, [name |-> name, arguments |-> arguments])
       IN  /\ last' = [op |-> "run_tool", status |-> r.status, error |-> r.error,
                       value |-> r.value, name |-> name, arguments |-> arguments]
           /\ invoked' = r.invoked
    /\ UNCHANGED <<registry, registered, chatter, history, pc, request, turn>>

-----------------------------------------------------------------------------
(* Driver operations.                                                      *)

\* Chatter(system_message, tools): the schema list is read from the registry
\* here, unless the caller passes one (the empty list, in this exploration);
\* tools_given observes which of the two happened
ChatterInit(system_message, tools) ==
    /\ pc = "idle"
    /\ chatter' = IF tools = PyNone /\ GetToolsRaises(registry)
                  THEN chatter
                  ELSE [constructed |-> TRUE,
                        system_message |-> OrText(system_message, DefaultSystemMessage),
                        tools |-> IF tools # PyNone THEN << >> ELSE get_tools(registry),
                        tools_given |-> tools # PyNone]
    /\ UNCHANGED <<registry, registered, history, pc, request, turn, invoked, last>>

\* completions.create(model, messages, tools, tool_choice)
Request(messages) == [sent |-> TRUE, messages |-> messages, tools |-> chatter.tools,
                      tool_choice |-> "auto"]

\* chat(message, history) up to its first remote request
ChatCall(message) ==
    /\ pc = "idle"
    /\ chatter.constructed
    /\ Len(history) + 2 <= MaxHistory
    /\ LET h == ListAppend(history, UserEntry(message))
           b == BuildMessages(chatter.system_message, h)
       IN  /\ history' = h
           /\ invoked' = << >>
           /\ IF b.ok
              THEN /\ request' = Request(b.messages)
                   /\ pc' = "awaiting"
                   /\ turn' = [entry |-> history, requests |-> 1]
                   /\ last' = [op |-> "chat", status |-> "running"]
              ELSE /\ request' = request
                   /\ pc' = "idle"
                   /\ turn' = [entry |-> history, requests |-> 0]
                   /\ last' = [op |-> "chat", status |-> "raised", error |-> "ValueError"]
    /\ UNCHANGED <<registry, registered, chatter>>

\* one iteration of the loop of chat(): the response arrives and is handled,
\* up to the next remote request, the return or the propagated error
ChatRound(content, tool_calls) ==
    /\ pc = "awaiting"
    /\ LoopCondition(turn.requests)
    /\ HasToolCalls(tool_calls) => Len(history) + Len(tool_calls) + 2 <= MaxHistory
    /\ IF HasToolCalls(tool_calls)
       THEN LET h1 == ListAppend(history, AssistantEntry(content, tool_calls))
                r == handle_tool_calls(registry, tool_calls)
                h2 == h1 \o ToolEntries(r.responses)
                b == BuildMessages(chatter.system_message, h2)
            IN  /\ invoked' = invoked \o r.invoked
                /\ IF r.status = "raised"
                   THEN /\ history' = h1
                        /\ pc' = "idle"
                        /\ last' = [op |-> "chat", status |-> "raised", error |-> r.error]
                        /\ request' = NoRequest
                        /\ UNCHANGED turn
                   ELSE /\ history' = h2
                        /\ IF b.ok
                           THEN /\ request' = Request(b.messages)
                                /\ turn' = [turn EXCEPT !.requests = @ + 1]
                                /\ UNCHANGED <<pc, last>>
                           ELSE /\ pc' = "idle"
                                /\ last' = [op |-> "chat", status |-> "raised",
                                            error |-> "ValueError"]
                                /\ UNCHANGED <<request, turn>>
       ELSE LET text == OrText(content, "No response.")
            IN  /\ history' = ListAppend(history, FinalEntry(text))
                /\ pc' = "idle"
                /\ last' = [op |-> "chat", status |-> "returned", value |-> text]
                /\ request' = NoRequest
                /\ UNCHANGED <<turn, invoked>>
    /\ UNCHANGED <<registry, registered, chatter>>

\* between two chat() calls the caller, who owns the history list, appends an
\* entry of its own
CallerAppend(entry) ==
    /\ pc = "idle"
    /\ Len(history) + 1 <= MaxHistory
    /\ history' = Append(history, entry)
    /\ last' = [op |-> "caller", status |-> "returned"]
    /\ UNCHANGED <<registry, registered, chatter, request, turn, invoked, pc>>

Next ==
    \/ \E reg \in ChatRegistrations : RegisterTool(reg[1], reg[2])
    \/ \E key \in RegNames : DeleteTool(key)
    \/ \E system_message \in {PyNone}, tools \in {PyNone, PyEmptyList} :
            ChatterInit(system_message, tools)
    \/ \E message \in UserMessages : ChatCall(message)
    \/ \E content \in Contents, tool_calls \in SeqsUpTo(ToolCallRequests, MaxCalls) :
            ChatRound(content, tool_calls)

Spec == Init /\ [][Next]_vars

\* one session of the driver on a history list to which its owner, the caller,
\* also appends entries of its own between two calls
NextCaller ==
    \/ \E reg \in ChatRegistrations : RegisterTool(reg[1], reg[2])
    \/ \E system_message \in {PyNone}, tools \in {PyNone} :
            ChatterInit(system_message, tools)
    \/ \E message \in UserMessages : ChatCall(message)
    \/ \E entry \in ForeignEntries : CallerAppend(entry)
    \/ \E content \in Contents, tool_calls \in SeqsUpTo(ToolCallRequests, MaxCalls) :
            ChatRound(content, tool_calls)

SpecCaller == Init /\ [][NextCaller]_vars

\* one session of the driver against a remote model that does not ask for tool
\* calls for ever: a response without tool calls, which chat() waits for in
\* the blocking call of lines 165-170, eventually arrives whenever a request
\* stays outstanding
PlainResponse == \E content \in Contents : ChatRound(content, << >>)

NextLive ==
    \/ \E reg \in ChatRegistrations : RegisterTool(reg[1], reg[2])
    \/ \E system_message \in {PyNone}, tools \in {PyNone} :
            ChatterInit(system_message, tools)
    \/ \E message \in UserMessages : ChatCall(message)
    \/ \E content \in Contents, tool_calls \in SeqsUpTo(ToolCallRequests, MaxCalls) :
            ChatRound(content, tool_calls)

SpecLive == Init /\ [][NextLive]_vars /\ WF_vars(PlainResponse)

\* the registry, the dispatcher and the synthesizer as the host application
\* uses them directly, with every callable
NextTools ==
    \/ \E name \in RegNames, fn \in Callables : RegisterTool(name, fn)
    \/ \E key \in RegNames : DeleteTool(key)
    \/ GetTools
    \/ \E name \in CallNames, arguments \in ArgStrings : RunTool(name, arguments)
    \/ \E system_message \in {PyNone, PyStr("")}, tools \in {PyNone, PyEmptyList} :
            ChatterInit(system_message, tools)

SpecTools == Init /\ [][NextTools]_vars

\* the same, with a callable that is not a function among the registered ones
NextCallables ==
    \/ \E name \in RegNames, fn \in AnyCallables : RegisterTool(name, fn)
    \/ \E key \in RegNames : DeleteTool(key)
    \/ GetTools
    \/ \E name \in CallNames, arguments \in ArgStrings : RunTool(name, arguments)
    \/ \E system_message \in {PyNone}, tools \in {PyNone, PyEmptyList} :
            ChatterInit(system_message, tools)

SpecCallables == Init /\ [][NextCallables]_vars

-----------------------------------------------------------------------------
(* Properties of the conversation driver, checked under Spec.              *)

\* a step of the loop of chat() that received a response with tool calls:
\* the assistant entry it appended, and the calls that entry lists
Responded == pc = "awaiting" /\ Len(history') > Len(history)
Answer == history'[Len(history) + 1]
ToolRound == Responded /\ "tool_calls" \in DOMAIN Answer
DispatchOf(tc) == run_tool(registry, [name |-> tc.function.name,
                                      arguments |-> tc.function.arguments])

\* C1: a response with n >= 1 tool calls whose dispatches all succeed grows
\* history by exactly n+1 entries before the next remote request is issued:
\* the assistant entry listing the calls, then one tool entry per call, in the
\* order of the calls, the j-th with the id and name of the j-th call; the
\* call then goes on with the next request.
C1_ToolRoundAppends ==
    [][(/\ ToolRound
        /\ \A j \in 1..Len(Answer.tool_calls) :
              DispatchOf(Answer.tool_calls[j]).status = "returned")
       => LET n == Len(Answer.tool_calls)
          IN  /\ n >= 1
              /\ Len(history') = Len(history) + n + 1
              /\ SubSeq(history', 1, Len(history)) = history
              /\ Answer.role = "assistant"
              /\ \A j \in 1..n :
                    LET t == history'[Len(history) + 1 + j]
                    IN  /\ t.role = "tool"
                        /\ t.tool_call_id = Answer.tool_calls[j].id
                        /\ t.name = Answer.tool_calls[j].function.name
              /\ pc' = "awaiting"
              /\ turn'.requests = turn.requests + 1
              /\ request'.messages = BuildMessages(chatter.system_message, history').messages
      ]_vars

\* a second request is in flight after a round of two differently named calls
C1_Witness ==
    /\ pc = "awaiting"
    /\ turn.requests >= 2
    /\ Len(history) >= 4
    /\ LET a == history[Len(history) - 2]
       IN  /\ a.role = "assistant"
           /\ "tool_calls" \in DOMAIN a
           /\ Len(a.tool_calls) = 2
           /\ a.tool_calls[1].id # a.tool_calls[2].id
           /\ history[Len(history) - 1].role = "tool"
           /\ history[Len(history)].role = "tool"

\* C2: when the first response of a chat() call carries no tool calls, the
\* call has issued exactly one remote request, history is the history at
\* entry followed by the user entry and one assistant entry, and the value
\* returned is the content of that assistant entry.
C2_PlainTurn ==
    (/\ last.op = "chat"
     /\ last.status # "running"
     /\ Len(history) >= Len(turn.entry) + 2
     /\ history[Len(turn.entry) + 2].role = "assistant"
     /\ "tool_calls" \notin DOMAIN history[Len(turn.entry) + 2])
    => /\ turn.requests = 1
       /\ Len(history) = Len(turn.entry) + 2
       /\ SubSeq(history, 1, Len(turn.entry)) = turn.entry
       /\ history[Len(turn.entry) + 1].role = "user"
       /\ last.status = "returned"
       /\ last.value = history[Len(history)].content

\* a second turn has returned the text of a tool-call-free first response
C2_Witness ==
    /\ pc = "idle"
    /\ last.op = "chat"
    /\ last.status = "returned"
    /\ turn.requests = 1
    /\ Len(turn.entry) >= 2
    /\ last.value = "ok"

\* C3: every tool entry of history carries the id of one of the calls listed
\* by the nearest preceding assistant entry, and only tool entries lie
\* between the two.
C3_ToolEntriesPaired ==
    \A i \in 1..Len(history) :
        history[i].role = "tool" =>
            \E k \in 1..(i - 1) :
                /\ history[k].role = "assistant"
                /\ \A m \in (k + 1)..(i - 1) : history[m].role = "tool"
                /\ "tool_calls" \in DOMAIN history[k]
                /\ \E j \in 1..Len(history[k].tool_calls) :
                       history[k].tool_calls[j].id = history[i].tool_call_id

\* history holds the tool entries of two rounds
C3_Witness ==
    \E i, j \in 1..Len(history) :
        /\ i + 1 < j
        /\ history[i].role = "tool"
        /\ history[j].role = "tool"
        /\ \E k \in (i + 1)..(j - 1) : history[k].role = "assistant"

\* C4 (as claimed): when a response lists a call that names a tool missing
\* from the registry, chat() exits with ToolNotFoundError, without a further
\* remote request and without appending a tool entry.
C4_UnknownToolRaisesNotFound ==
    [][(/\ ToolRound
        /\ \E j \in 1..Len(Answer.tool_calls) :
              Answer.tool_calls[j].function.name \notin DictKeys(registry))
       => /\ pc' = "idle"
          /\ last'.op = "chat"
          /\ last'.status = "raised"
          /\ last'.error = "ToolNotFoundError"
          /\ turn'.requests = turn.requests
          /\ request' = NoRequest
          /\ Len(history') = Len(history) + 1
      ]_vars

\* C10 (as claimed): when a dispatched tool returns an empty result, the
\* tool entry appended for that call has the content "No results found.".
C10_EmptyResultFallsBack ==
    [][(ToolRound /\ Len(history') = Len(history) + 1 + Len(Answer.tool_calls))
       => \A j \in 1..Len(Answer.tool_calls) :
             ~Truthy(DispatchOf(Answer.tool_calls[j]).value)
                => history'[Len(history) + 1 + j].content = "No results found."
      ]_vars

\* C9 (as claimed): the schema list of a remote request is the schema list
\* of the registry at the time of the request, for a driver built without an
\* explicit tools argument.
C9_RequestCarriesLiveSchemas ==
    (pc = "awaiting" /\ ~chatter.tools_given) => request.tools = get_tools(registry)

-----------------------------------------------------------------------------
(* Properties of the registry, the dispatcher and the synthesizer, checked *)
(* under SpecTools.                                                        *)

\* steps that are a run_tool(), a get_tools() and a register_tool() call
\* (a delete leaves `last` alone and shortens the registry)
RunToolStep == last'.op = "run_tool" /\ last' # last
GetToolsStep == last'.op = "get_tools" /\ last' # last
RegisterStep ==
    /\ last'.op = "register_tool"
    /\ <<last, registry>>' # <<last, registry>>
    /\ Len(registry') >= Len(registry)

\* C5 (as claimed): run_tool with a name that is no key of the registry
\* raises ToolNotFoundError whatever the arguments string, and invokes nothing.
C5_UnknownNameAlwaysNotFound ==
    [][(RunToolStep /\ last'.name \notin DictKeys(registry))
       => /\ last'.status = "raised"
          /\ last'.error = "ToolNotFoundError"
          /\ invoked' = << >>
      ]_vars

\* C6: run_tool on a name whose latest registration is f, with arguments that
\* decode to the object A, calls f once with A as keyword arguments, calls no
\* other callable, and its outcome is that of f: the result of f unchanged,
\* or the TypeError of the call when A does not bind to the parameters of f.
C6_RunsRegisteredCallable ==
    [][(/\ RunToolStep
        /\ last'.name \in RegNames
        /\ registered[last'.name] # PyNone
        /\ JsonLoads(last'.arguments).ok)
       => LET f == registered[last'.name]
              A == JsonLoads(last'.arguments).value
          IN  /\ invoked' = << [fn |-> f, kwargs |-> A] >>
              /\ IF Binds(f, A)
                 THEN last'.status = "returned" /\ last'.value = Body(f, A)
                 ELSE last'.status = "raised" /\ last'.error = "TypeError"
      ]_vars

\* run_tool has returned add's "5" for {"a": "2", "b": "3"}
C6_Witness ==
    /\ last.op = "run_tool"
    /\ last.status = "returned"
    /\ last.value = PyStr("5")
    /\ invoked = << [fn |-> fn_add, kwargs |-> << <<"a", "2">>, <<"b", "3">> >>] >>
    /\ registered[last.name] = fn_add

\* C7: registering a callable under a name that is already registered raises
\* nothing and leaves the registered names as they were, and every run_tool
\* for a name calls the callable registered last under it, no earlier one.
C7_LastRegistrationWins ==
    [][/\ (RegisterStep /\ last'.replaced)
          => /\ last'.status = "returned"
             /\ Len(registry') = Len(registry)
             /\ DictKeys(registry') = DictKeys(registry)
             /\ \A n \in RegNames, a \in ArgStrings :
                   LET r == run_tool(registry', [name |-> n, arguments |-> a])
                   IN  \A k \in 1..Len(r.invoked) : r.invoked[k].fn = registered'[n]
       /\ (RunToolStep /\ last'.name \in RegNames)
          => \A k \in 1..Len(invoked') : invoked'[k].fn = registered[last'.name]
      ]_vars

\* a registration has replaced the callable of a name, another name being registered too
C7_Witness ==
    /\ last.op = "register_tool"
    /\ last.replaced
    /\ Len(registry) = 2

\* C8 (as claimed): get_tools() returns one wrapped schema per registered
\* name, no two of them for the same tool name, and every registered tool is
\* among them, also when it was registered after a driver was constructed.
C8_OneSchemaPerToolName ==
    [][GetToolsStep
       => LET t == last'.value
          IN  /\ Len(t) = Cardinality(DictKeys(registry))
              /\ \A i, j \in 1..Len(t) : i # j => t[i].function.name # t[j].function.name
              /\ \A n \in RegNames :
                    registered[n] # PyNone
                       => \E i \in 1..Len(t) :
                             t[i] = [type |-> "function",
                                     function |-> generate_tool_metadata(registered[n])]
      ]_vars

-----------------------------------------------------------------------------
(* Further properties of the conversation driver, checked under Spec, and  *)
(* under SpecCaller and SpecLive where the comment of the property says so. *)

\* C11: a response without tool calls whose content is empty or absent makes
\* chat() append an assistant entry with the content "No response." and
\* return that text; and every assistant entry of history, with or without
\* tool calls, has a non-empty content.
C11_AssistantContentNeverEmpty ==
    /\ [][\A content \in Contents :
            (ChatRound(content, << >>) /\ ~Truthy(content))
               => /\ history' = Append(history, [role |-> "assistant",
                                                  content |-> "No response."])
                  /\ last'.op = "chat"
                  /\ last'.status = "returned"
                  /\ last'.value = "No response."
         ]_vars
    /\ [](\A i \in 1..Len(history) :
             history[i].role = "assistant" => history[i].content # "")

\* a call has returned "No response." after a round whose assistant entry got
\* the placeholder text
C11_Witness ==
    /\ pc = "idle"
    /\ last.op = "chat"
    /\ last.status = "returned"
    /\ last.value = "No response."
    /\ history[Len(history)] = [role |-> "assistant", content |-> "No response."]
    /\ \E i \in 1..Len(history) :
           /\ "tool_calls" \in DOMAIN history[i]
           /\ history[i].content = "Tool call issued."

\* a step that enters chat(): the user entry is appended from idle
ChatEntered ==
    /\ pc = "idle"
    /\ Len(history') = Len(history) + 1
    /\ history'[Len(history')].role = "user"

\* C12: chat() called on a history that holds an entry whose role is none of
\* system, user, assistant and tool fails with the invalid-role error
\* (ValueError) before any remote request and before any tool dispatch, and
\* appends no assistant and no tool entry: nothing but user entries ever
\* follows such an entry. (Checked under SpecCaller.)
C12_InvalidRoleFailsEarly ==
    /\ [][(/\ ChatEntered
           /\ \E i \in 1..Len(history) :
                 history[i].role \notin {"system", "user", "assistant", "tool"})
          => /\ pc' = "idle"
             /\ last' = [op |-> "chat", status |-> "raised", error |-> "ValueError"]
             /\ request' = request
             /\ turn'.requests = 0
             /\ invoked' = << >>
         ]_vars
    /\ [](\A i, j \in 1..Len(history) :
             (i < j /\ history[i].role \notin {"system", "user", "assistant", "tool"})
                => history[j].role \notin {"assistant", "tool"})

\* a call has failed on a history that holds an earlier, answered turn
\* followed by an entry with the role "function"
C12_Witness ==
    /\ pc = "idle"
    /\ last = [op |-> "chat", status |-> "raised", error |-> "ValueError"]
    /\ turn.requests = 0
    /\ \E i \in 1..Len(history) : history[i].role = "function"
    /\ \E i \in 1..Len(history) : history[i].role = "assistant"
    /\ history[Len(history)].role = "user"

\* C13: history is append-only: every step leaves the history it found as a
\* prefix of the new one, and during a chat() call and after its exit,
\* normal or by error, the history as it was at entry is a prefix of the
\* current history; so it is across consecutive calls.
C13_HistoryAppendOnly ==
    /\ [][/\ Len(history') >= Len(history)
           /\ SubSeq(history', 1, Len(history)) = history
         ]_vars
    /\ [](last.op = "chat"
            => /\ Len(turn.entry) < Len(history)
               /\ SubSeq(history, 1, Len(turn.entry)) = turn.entry)

\* a second call, entered on a non-empty history, is past a tool round
C13_Witness ==
    /\ pc = "awaiting"
    /\ Len(turn.entry) >= 2
    /\ turn.requests >= 2
    /\ Len(history) >= Len(turn.entry) + 3
    /\ history[Len(history)].role = "tool"

\* a step on which chat() exits, and the two ways it does
ChatExited == pc = "awaiting" /\ pc' = "idle"

\* C14: when the remote model eventually answers without tool calls, and
\* every dispatch before that succeeds, chat() eventually returns: a call in
\* progress is eventually over, it ends by an error only on a round with a
\* failing dispatch, and it returns only on a response without tool calls.
\* (Checked under SpecLive.)
C14_ChatEventuallyReturns ==
    /\ (pc = "awaiting") ~> (pc = "idle" /\ last.op = "chat" /\ last.status # "running")
    /\ [][(ChatExited /\ last'.status = "raised")
            => /\ ToolRound
               /\ \E j \in 1..Len(Answer.tool_calls) :
                     DispatchOf(Answer.tool_calls[j]).status = "raised"
         ]_vars
    /\ [][(ChatExited /\ last'.status = "returned")
            => /\ Responded
               /\ "tool_calls" \notin DOMAIN Answer
               /\ Len(history') = Len(history) + 1
         ]_vars

\* a call has returned after two rounds of tool calls
C14_Witness ==
    /\ pc = "idle"
    /\ last.op = "chat"
    /\ last.status = "returned"
    /\ turn.requests >= 3
    /\ "tool_calls" \notin DOMAIN history[Len(history)]

\* the callables invoked by the dispatches of the first k calls of a round
RECURSIVE DispatchedUpTo(_, _)
DispatchedUpTo(tool_calls, k) ==
    IF k = 0 THEN << >>
    ELSE DispatchedUpTo(tool_calls, k - 1) \o DispatchOf(tool_calls[k]).invoked

\* the position of the first call of a round whose dispatch fails, 0 if none
FirstFailure(tool_calls) ==
    IF \A j \in 1..Len(tool_calls) : DispatchOf(tool_calls[j]).status = "returned"
    THEN 0
    ELSE CHOOSE k \in 1..Len(tool_calls) :
            /\ DispatchOf(tool_calls[k]).status = "raised"
            /\ \A j \in 1..(k - 1) : DispatchOf(tool_calls[j]).status = "returned"

\* C16 (as claimed): the tool entry of a call is appended once its dispatch
\* has succeeded and before the next call is dispatched, so that when the
\* k-th dispatch of a round fails, history holds the assistant entry and the
\* tool entries of the k-1 calls before it.
C16_ToolEntryBeforeNextDispatch ==
    [][(ToolRound /\ FirstFailure(Answer.tool_calls) > 0)
       => LET k == FirstFailure(Answer.tool_calls)
          IN  /\ Len(history') = Len(history) + 1 + (k - 1)
              /\ \A j \in 1..(k - 1) :
                    /\ history'[Len(history) + 1 + j].role = "tool"
                    /\ history'[Len(history) + 1 + j].tool_call_id = Answer.tool_calls[j].id
      ]_vars

\* C16 (amended): the calls of a round are dispatched one at a time in the
\* order received, and the tool entries are appended only when every
\* dispatch of the round has succeeded, in the order of the calls; when the
\* k-th dispatch fails, the k-1 calls before it have run and no later one,
\* chat() exits with the error of the k-th, and history holds the assistant
\* entry of the round and none of its tool entries.
C16_ToolEntriesAfterAllDispatches ==
    [][ToolRound
       => LET calls == Answer.tool_calls
              k == FirstFailure(calls)
          IN  IF k > 0
              THEN /\ Len(history') = Len(history) + 1
                   /\ invoked' = invoked \o DispatchedUpTo(calls, k)
                   /\ pc' = "idle"
                   /\ last'.status = "raised"
                   /\ last'.error = DispatchOf(calls[k]).error
                   /\ request' = NoRequest
              ELSE /\ Len(history') = Len(history) + 1 + Len(calls)
                   /\ invoked' = invoked \o DispatchedUpTo(calls, Len(calls))
                   /\ \A j \in 1..Len(calls) :
                         /\ history'[Len(history) + 1 + j].role = "tool"
                         /\ history'[Len(history) + 1 + j].tool_call_id = calls[j].id
      ]_vars

\* the first round of a call has failed on its second dispatch: the first
\* tool has run, and history ends with the assistant entry of the round
C16_Witness ==
    /\ pc = "idle"
    /\ last.op = "chat"
    /\ last.status = "raised"
    /\ turn.requests = 1
    /\ Len(invoked) = 1
    /\ LET a == history[Len(history)]
       IN  /\ a.role = "assistant"
           /\ "tool_calls" \in DOMAIN a
           /\ Len(a.tool_calls) = 2

\* C17 (as claimed): whenever chat() has exited, normally or by a propagated
\* error, every assistant entry of history that lists tool calls is
\* immediately followed by exactly one tool entry per listed call.
C17_ToolCallsAnsweredAtExit ==
    pc = "idle"
    => \A k \in 1..Len(history) :
          (/\ history[k].role = "assistant"
           /\ "tool_calls" \in DOMAIN history[k]
           /\ history[k].tool_calls # << >>)
          => LET n == Len(history[k].tool_calls)
             IN  /\ k + n <= Len(history)
                 /\ \A j \in 1..n :
                       /\ history[k + j].role = "tool"
                       /\ history[k + j].tool_call_id = history[k].tool_calls[j].id
                 /\ k + n + 1 <= Len(history) => history[k + n + 1].role # "tool"

\* C18: the message list of every remote request has 1 + len(history)
\* elements: the system message of the driver first, then the translation of
\* every history entry, in history order; and history never holds a system
\* entry, chat() appending none.
C18_RequestMirrorsHistory ==
    /\ pc = "awaiting"
       => /\ request.sent
          /\ Len(request.messages) = 1 + Len(history)
          /\ request.messages[1] = [role |-> "system", content |-> chatter.system_message]
          /\ \A i \in 1..Len(history) :
                LET m == request.messages[i + 1]
                    h == history[i]
                IN  /\ m.role = h.role
                    /\ m.content = h.content
                    /\ h.role = "tool"
                          => m.tool_call_id = h.tool_call_id /\ m.name = h.name
                    /\ "tool_calls" \in DOMAIN h => m.tool_calls = h.tool_calls
    /\ \A i \in 1..Len(history) : history[i].role # "system"

\* the request that follows a round of tool calls is outstanding: its list
\* ends with the translation of a tool entry
C18_Witness ==
    /\ pc = "awaiting"
    /\ turn.requests >= 2
    /\ Len(request.messages) >= 4
    /\ request.messages[1].role = "system"
    /\ request.messages[Len(request.messages)].role = "tool"

\* C19: the loop of chat() has no bound on its rounds: whatever the number
\* of requests a call has issued, when the response to the outstanding one
\* asks for a call of a registered tool that succeeds, the call goes one more
\* round: it issues one more request without returning and history grows by
\* two entries. (Only the bound on the length of history ends the rounds
\* here. Checked under SpecLive.)
C19_AnotherRoundAlwaysPossible ==
    (/\ pc = "awaiting"
     /\ Len(history) + 3 <= MaxHistory
     /\ \E tc \in ToolCallRequests : DispatchOf(tc).status = "returned")
    => ENABLED (\E content \in Contents, tc \in ToolCallRequests :
                   /\ DispatchOf(tc).status = "returned"
                   /\ ChatRound(content, <<tc>>)
                   /\ pc' = "awaiting"
                   /\ turn'.requests = turn.requests + 1
                   /\ Len(history') = Len(history) + 2)

\* one call has issued as many requests as the bound on history leaves room
\* for, two entries a round, and has not returned
C19_Witness ==
    /\ pc = "awaiting"
    /\ turn.requests = MaxHistory \div 2
    /\ turn.requests >= 3
    /\ Len(history) >= Len(turn.entry) + 1 + 2 * (turn.requests - 1)

-----------------------------------------------------------------------------
(* Further properties of the synthesizer and the dispatcher, checked under *)
(* SpecTools unless the comment of the property says otherwise.            *)

\* C15 (as claimed): generate_tool_metadata is deterministic and returns,
\* for every callable, a schema with an object parameter schema in which
\* every formal parameter of the callable is a key of properties exactly once
\* and an element of required exactly once, both in declaration order and
\* with nothing else, every property is typed "string", and
\* additionalProperties is false: get_tools() returns such a schema for
\* every registered callable, the same one wherever the callable is the same.
\* (Checked under SpecCallables.)
C15_SchemaCoversParameters ==
    [][GetToolsStep
       => /\ last'.status = "returned"
          /\ Len(last'.value) = Len(registry)
          /\ \A i \in 1..Len(registry) :
                LET f == registry[i][2]
                    m == last'.value[i].function.parameters
                IN  /\ m.type = "object"
                    /\ Len(m.properties) = Len(f.params)
                    /\ \A k \in 1..Len(f.params) :
                          /\ m.properties[k][1] = f.params[k]
                          /\ m.properties[k][2].type = "string"
                    /\ m.required = f.params
                    /\ m.additionalProperties = FALSE
          /\ \A i, j \in 1..Len(registry) :
                registry[i][2] = registry[j][2] => last'.value[i] = last'.value[j]
      ]_vars

\* C20 (as claimed): every tool name a schema entry of get_tools() advertises
\* is dispatchable: run_tool with that name never raises ToolNotFoundError,
\* and with arguments that decode it invokes the callable the entry
\* describes.
C20_AdvertisedNamesDispatch ==
    [][GetToolsStep
       => \A i \in 1..Len(last'.value), a \in ArgStrings :
             LET r == run_tool(registry, [name |-> last'.value[i].function.name,
                                          arguments |-> a])
             IN  /\ r.error # "ToolNotFoundError"
                 /\ JsonLoads(a).ok
                       => r.invoked = << [fn |-> registry[i][2],
                                          kwargs |-> JsonLoads(a).value] >>
      ]_vars

=============================================================================
